---- MODULE Spec2Model ----
(***************************************************************************)
(* Model of the vanity-address search engine of suix                       *)
(* (crates/vanity/src/lib.rs): the pattern parser, the matcher and the     *)
(* round-based parallel search coordinator.                                *)
(*                                                                         *)
(* Strings are sequences of one-character strings, bytes are integers in   *)
(* 0..255, Option values are records with a "some" flag and Result values  *)
(* are records with an "ok" flag.                                          *)
(***************************************************************************)
EXTENDS Integers, Sequences, FiniteSets, TLC

(* ------------------------------------------------------------------ *)
(* Bounds of the model                                                 *)
(* ------------------------------------------------------------------ *)

\* Longest tail (the characters after "0x") of a hex-literal input pattern.
MaxTailLen == 3

\* Number of bytes of a modelled address (a real Sui address has 32).
AddrBytes == 2

\* Largest worker count, target and batch size of a modelled run, and the
\* attempted count beyond which a bounded run dispatches no further round
\* (in a run without end the attempted count stops counting there).
MaxThreads == 2

MaxTarget == 2

MaxBatch == 2

MaxTried == 4

(* ------------------------------------------------------------------ *)
(* Option / Result values                                              *)
(* ------------------------------------------------------------------ *)

None == [some |-> FALSE]

Some(v) == [some |-> TRUE, v |-> v]

Err == [ok |-> FALSE]

Ok(v) == [ok |-> TRUE, val |-> v]

(* ------------------------------------------------------------------ *)
(* Characters and strings                                              *)
(* ------------------------------------------------------------------ *)

LowerHexDigits == <<"0","1","2","3","4","5","6","7","8","9","a","b","c","d","e","f">>

UpperHexDigits == <<"0","1","2","3","4","5","6","7","8","9","A","B","C","D","E","F">>

\* char::to_digit(16): the value of a hexadecimal digit, None otherwise.
to_digit(c) ==
    IF \E i \in 1..16 : LowerHexDigits[i] = c
    THEN Some((CHOOSE i \in 1..16 : LowerHexDigits[i] = c) - 1)
    ELSE IF \E i \in 1..16 : UpperHexDigits[i] = c
         THEN Some((CHOOSE i \in 1..16 : UpperHexDigits[i] = c) - 1)
         ELSE None

\* str::starts_with(prefix)
starts_with(s, prefix) ==
    /\ Len(s) >= Len(prefix)
    /\ SubSeq(s, 1, Len(prefix)) = prefix

\* str::ends_with / slice::ends_with
ends_with(s, suffix) ==
    /\ Len(s) >= Len(suffix)
    /\ SubSeq(s, Len(s) - Len(suffix) + 1, Len(s)) = suffix

\* str::contains(char)
contains(s, c) == \E i \in 1..Len(s) : s[i] = c

\* str::trim_start_matches("0x"): removes the prefix repeatedly.
RECURSIVE trim_start_matches(_, _)
trim_start_matches(s, prefix) ==
    IF Len(prefix) > 0 /\ starts_with(s, prefix)
    THEN trim_start_matches(SubSeq(s, Len(prefix) + 1, Len(s)), prefix)
    ELSE s

\* str::strip_prefix("0x"): removes the prefix once, None when absent.
strip_prefix(s, prefix) ==
    IF starts_with(s, prefix)
    THEN Some(SubSeq(s, Len(prefix) + 1, Len(s)))
    ELSE None

\* The digits of an unsigned number, most significant first, folded base 16.
RECURSIVE FoldDigits(_, _)
FoldDigits(digits, acc) ==
    IF digits = << >> THEN Ok(acc)
    ELSE LET d == to_digit(Head(digits))
         IN  IF ~d.some THEN Err
             ELSE FoldDigits(Tail(digits), (acc * 16 + d.v))

\* u8::from_str_radix(src, 16): an optional leading "+" sign is accepted, a
\* lone sign or an empty string is an error, a value above 255 overflows.
from_str_radix(src) ==
    IF src = << >> THEN Err
    ELSE IF Len(src) = 1 /\ src[1] \in {"+", "-"} THEN Err
    ELSE LET digits == IF src[1] = "+" THEN Tail(src) ELSE src
             r == FoldDigits(digits, 0)
         IN  IF r.ok /\ r.val > 255 THEN Err ELSE r

(* ------------------------------------------------------------------ *)
(* hex_str_to_bytes                                                    *)
(* ------------------------------------------------------------------ *)

Min(a, b) == IF a < b THEN a ELSE b

\* The loop body of hex_str_to_bytes from offset i (0-based, step 2) on.
RECURSIVE HexLoop(_, _, _)
HexLoop(hex_str, i, bytes) ==
    IF i >= Len(hex_str) THEN Ok(bytes)
    ELSE LET end == Min(i + 2, Len(hex_str))
             hex_pair == SubSeq(hex_str, i + 1, end)
             padded_hex == IF Len(hex_pair) = 1 THEN hex_pair \o <<"0">> ELSE hex_pair
             b == from_str_radix(padded_hex)
         IN  IF ~b.ok THEN Err
             ELSE HexLoop(hex_str, i + 2, Append(bytes, b.val))

hex_str_to_bytes(hex_str) ==
    HexLoop(trim_start_matches(hex_str, <<"0","x">>), 0, << >>)

(* ------------------------------------------------------------------ *)
(* string_to_hexspeak                                                  *)
(* ------------------------------------------------------------------ *)

\* char::to_lowercase on the ASCII letters the model uses.
to_lowercase(c) ==
    IF \E i \in 11..16 : UpperHexDigits[i] = c
    THEN LowerHexDigits[CHOOSE i \in 11..16 : UpperHexDigits[i] = c]
    ELSE CASE c = "G" -> "g" [] c = "O" -> "o" [] c = "S" -> "s"
           [] c = "H" -> "h" [] OTHER -> c

\* hexspeak_map with a guess for the characters outside the table.
hexspeak_map_guessing(c) ==
    CASE c \in {"a","b","c","d","e","f"} -> Some(c)
      [] c \in {"0","1","2","3","4","5","6","7","8","9"} -> Some(c)
      [] c = "g" -> Some("9")
      [] c \in {"i", "j", "l"} -> Some("1")
      [] c = "o" -> Some("0")
      [] c = "q" -> Some("9")
      [] c = "s" -> Some("5")
      [] c = "t" -> Some("7")
      [] c = "z" -> Some("2")
      [] OTHER -> Some("0")

\* The fixed letter -> hex digit table, None for a character outside of it.
hexspeak_map(c) ==
    CASE c \in {"a","b","c","d","e","f"} -> Some(c)
      [] c \in {"0","1","2","3","4","5","6","7","8","9"} -> Some(c)
      [] c = "g" -> Some("9")
      [] c = "i" -> Some("1")
      [] c = "j" -> Some("1")
      [] c = "l" -> Some("1")
      [] c = "o" -> Some("0")
      [] c = "q" -> Some("9")
      [] c = "s" -> Some("5")
      [] c = "t" -> Some("7")
      [] c = "z" -> Some("2")
      [] OTHER -> None

\* HexspeakLoop that keeps a character outside the table as it is.
RECURSIVE HexspeakLoopKeeping(_, _)
HexspeakLoopKeeping(chars, hex_string) ==
    IF chars = << >> THEN Ok(hex_string)
    ELSE LET hex_char == hexspeak_map(to_lowercase(Head(chars)))
         IN  IF hex_char.some
             THEN HexspeakLoopKeeping(Tail(chars), Append(hex_string, hex_char.v))
             ELSE HexspeakLoopKeeping(Tail(chars), Append(hex_string, Head(chars)))

\* The character loop of string_to_hexspeak: the mapped string, or Err at the
\* first character that is not in the table.
RECURSIVE HexspeakLoop(_, _)
HexspeakLoop(chars, hex_string) ==
    IF chars = << >> THEN Ok(hex_string)
    ELSE LET hex_char == hexspeak_map(to_lowercase(Head(chars)))
         IN  IF hex_char.some
             THEN HexspeakLoop(Tail(chars), Append(hex_string, hex_char.v))
             ELSE Err

string_to_hexspeak(s) ==
    LET hex_string == HexspeakLoop(s, << >>)
    IN  IF hex_string.ok THEN hex_str_to_bytes(hex_string.val) ELSE Err

(* ------------------------------------------------------------------ *)
(* Regular expressions (the regex crate), on the characters the model  *)
(* uses: literals, the assertions ^ and $, the repetition +, and an    *)
(* opening parenthesis that nothing closes.                            *)
(* ------------------------------------------------------------------ *)

RegexSpecial == {"^", "$", "[", "]", "(", ")", "|", "{", "}", "+", "*", "?"}

\* Regex::new: an unclosed group is a syntax error, and so is a repetition
\* with no expression before it; literals, the assertions ^ and $ and a
\* repetition of what precedes it compile.
RegexNew(pattern) ==
    IF \/ \E i \in 1..Len(pattern) : pattern[i] \in (RegexSpecial \ {"^", "$", "+"})
       \/ (pattern # << >> /\ pattern[1] = "+")
    THEN Err
    ELSE Ok(pattern)

\* The index of the item after item i and the repetitions applied to it.
RECURSIVE NextItem(_, _)
NextItem(re, i) ==
    IF i + 1 <= Len(re) /\ re[i + 1] = "+" THEN NextItem(re, i + 1) ELSE i + 1

\* Whether re, from its item i on, matches text at offset pos (0-based).
RECURSIVE RegexMatchAt(_, _, _, _)
RegexMatchAt(re, i, text, pos) ==
    IF i > Len(re) THEN TRUE
    ELSE LET j == NextItem(re, i)
             most == IF j > i + 1 THEN Len(text) - pos ELSE 1
         IN  CASE re[i] = "^" -> pos = 0 /\ RegexMatchAt(re, j, text, pos)
               [] re[i] = "$" -> pos = Len(text) /\ RegexMatchAt(re, j, text, pos)
               [] OTHER -> \E n \in 1..most :
                              /\ pos + n <= Len(text)
                              /\ \A k \in 1..n : text[pos + k] = re[i]
                              /\ RegexMatchAt(re, j, text, pos + n)

\* Regex::is_match: an unanchored search.
is_match(re, text) == \E pos \in 0..Len(text) : RegexMatchAt(re, 1, text, pos)

(* ------------------------------------------------------------------ *)
(* parse_pattern                                                       *)
(* ------------------------------------------------------------------ *)

\* PopUneven with the pop forgotten: the padded byte stays in the needle.
PopUnevenKept(pattern, bytes) ==
    [needle |-> bytes, uneven_nibble |-> None, regex |-> None]

\* Vec::pop on the decoded needle when the pattern has odd length.
PopUneven(pattern, bytes) ==
    IF Len(pattern) % 2 = 1
    THEN IF bytes = << >>
         THEN [needle |-> bytes, uneven_nibble |-> None, regex |-> None]
         ELSE [needle |-> SubSeq(bytes, 1, Len(bytes) - 1),
               uneven_nibble |-> Some(bytes[Len(bytes)]),
               regex |-> None]
    ELSE [needle |-> bytes, uneven_nibble |-> None, regex |-> None]

\* parse_pattern with the error of the hex rule not returned: a "0x" string
\* that does not decode goes on to the regex and hexspeak rules.
parse_pattern_falls_through(pattern) ==
    LET hex == hex_str_to_bytes(pattern)
    IN  IF starts_with(pattern, <<"0","x">>) /\ hex.ok
        THEN Ok(PopUneven(pattern, hex.val))
        ELSE IF (\E c \in RegexSpecial : contains(pattern, c)) /\ RegexNew(pattern).ok
        THEN Ok([needle |-> << >>, uneven_nibble |-> None,
                 regex |-> Some(RegexNew(pattern).val)])
        ELSE LET needle == string_to_hexspeak(pattern)
             IN  IF needle.ok THEN Ok(PopUneven(pattern, needle.val)) ELSE Err

parse_pattern(pattern) ==
    IF starts_with(pattern, <<"0","x">>)
    THEN LET needle == hex_str_to_bytes(pattern)
         IN  IF needle.ok THEN Ok(PopUneven(pattern, needle.val)) ELSE Err
    ELSE IF (\E c \in RegexSpecial : contains(pattern, c)) /\ RegexNew(pattern).ok
    THEN Ok([needle |-> << >>, uneven_nibble |-> None,
             regex |-> Some(RegexNew(pattern).val)])
    ELSE LET needle == string_to_hexspeak(pattern)
         IN  IF needle.ok THEN Ok(PopUneven(pattern, needle.val)) ELSE Err

(* ------------------------------------------------------------------ *)
(* matches_pattern                                                     *)
(* ------------------------------------------------------------------ *)

\* hex::decode: an odd number of digits or a non-hex character is an error.
RECURSIVE DecodeLoop(_, _)
DecodeLoop(hex, bytes) ==
    IF hex = << >> THEN Ok(bytes)
    ELSE LET hi == to_digit(hex[1])
             lo == to_digit(hex[2])
         IN  IF hi.some /\ lo.some
             THEN DecodeLoop(SubSeq(hex, 3, Len(hex)), Append(bytes, hi.v * 16 + lo.v))
             ELSE Err

hex_decode(hex) == IF Len(hex) % 2 = 1 THEN Err ELSE DecodeLoop(hex, << >>)

\* byte & 0xf0 and byte & 0x0f
HighNibble(b) == (b \div 16) * 16

LowNibble(b) == b % 16

Returned(b) == [panicked |-> FALSE, value |-> b]

Panicked == [panicked |-> TRUE, value |-> FALSE]

\* A usize holding the mathematical value val when wrapped is FALSE and
\* 2^64 + val (val < 0) when the subtraction that made it wrapped around.
Usize(val) == [wrapped |-> val < 0, val |-> val]

\* usize < usize against a length, which is below 2^63: a wrapped value is
\* at least 2^64 - 2^63 and is never below a length.
UsizeLess(idx, len) == ~idx.wrapped /\ idx.val < len

\* The byte index whose nibble is compared: needle.len() for a prefix,
\* address_bytes.len() - needle.len() - 1 for a suffix. The subtraction is on
\* usize: below zero it panics in a build with overflow checks and wraps in a
\* build without.
relevant_byte_idx(address_len, needle_len, is_prefix, checks) ==
    IF is_prefix THEN Ok(Usize(needle_len))
    ELSE IF address_len - needle_len - 1 < 0 /\ checks
         THEN Err
         ELSE Ok(Usize(address_len - needle_len - 1))

\* The nibble test of lines 210-227, reached once the byte test has passed.
NibbleCheck(address_bytes, needle, uneven_nibble, is_prefix, checks) ==
    IF uneven_nibble.some
    THEN LET idx == relevant_byte_idx(Len(address_bytes), Len(needle),
                                      is_prefix, checks)
         IN  IF ~idx.ok THEN Panicked
             ELSE IF UsizeLess(idx.val, Len(address_bytes))
             THEN LET relevant_nibble ==
                          IF is_prefix
                          THEN HighNibble(address_bytes[idx.val.val + 1])
                          ELSE LowNibble(address_bytes[idx.val.val + 1])
                  IN  Returned(relevant_nibble = uneven_nibble.v)
             ELSE Returned(TRUE)
    ELSE Returned(TRUE)

\* matches_pattern with the anchor ignored: the needle is looked for at the
\* end of the address whatever is_prefix says.
matches_pattern_unanchored(addr, needle, uneven_nibble, regex, is_prefix, checks) ==
    LET address_bytes == hex_decode(SubSeq(addr, 3, Len(addr)))
    IN  IF regex.some THEN Returned(is_match(regex.v, addr))
        ELSE IF ~address_bytes.ok THEN Returned(FALSE)
        ELSE IF ~ends_with(address_bytes.val, needle) THEN Returned(FALSE)
        ELSE NibbleCheck(address_bytes.val, needle, uneven_nibble, is_prefix, checks)

\* matches_pattern with the regex tried on the address without its "0x"
\* marker.
matches_pattern_regex_on_hex(addr, needle, uneven_nibble, regex, is_prefix, checks) ==
    LET stripped == strip_prefix(addr, <<"0","x">>)
        address_hex == IF stripped.some THEN stripped.v ELSE addr
        address_bytes == hex_decode(address_hex)
    IN  IF regex.some THEN Returned(is_match(regex.v, address_hex))
        ELSE IF ~address_bytes.ok THEN Returned(FALSE)
        ELSE IF ~(IF is_prefix THEN starts_with(address_bytes.val, needle)
                  ELSE ends_with(address_bytes.val, needle))
        THEN Returned(FALSE)
        ELSE NibbleCheck(address_bytes.val, needle, uneven_nibble, is_prefix, checks)

matches_pattern(addr, needle, uneven_nibble, regex, is_prefix, checks) ==
    IF regex.some THEN Returned(is_match(regex.v, addr))
    ELSE LET stripped == strip_prefix(addr, <<"0","x">>)
             address_hex == IF stripped.some THEN stripped.v ELSE addr
             address_bytes == hex_decode(address_hex)
         IN  IF ~address_bytes.ok THEN Returned(FALSE)
             ELSE LET matches_bytes ==
                          IF is_prefix THEN starts_with(address_bytes.val, needle)
                          ELSE ends_with(address_bytes.val, needle)
                  IN  IF ~matches_bytes THEN Returned(FALSE)
                      ELSE NibbleCheck(address_bytes.val, needle, uneven_nibble,
                                       is_prefix, checks)

(* ------------------------------------------------------------------ *)
(* State                                                               *)
(* ------------------------------------------------------------------ *)

VARIABLES
    config,           \* the VanityConfig of the run
    bounded,          \* whether the run is recorded and cut off at MaxTried attempts
    overflow_checks,  \* whether the build checks integer overflow (debug profile)
    main,             \* where the thread that called generate_vanity_addresses is
    thread_count,     \* the size of the rayon pool
    pool_built,       \* whether the worker threads have been spawned
    starts_pattern,   \* Option of the parsed starts_with pattern
    ends_pattern,     \* Option of the parsed ends_with pattern
    count,            \* the AtomicUsize match counter
    tried,            \* the attempted count shown in the progress line
    remaining,        \* attempts of the current round no worker has started
    pc,               \* per worker: where it is in the for_each closure
    key,              \* per worker: Option of the address of its candidate
    current,          \* per worker: the closure's local `current`
    generated,        \* history: calls of generate_new_key so far
    first_match,      \* history: index of the first call whose candidate matched
    rejected,         \* history: Option of the last candidate found not to match
    cas_wins,         \* history: successful compare-exchanges
    ordinals,         \* history: the ordinals (current + 1) of the claimed matches
    emits,            \* history: Result Sink invocations (print or save call)
    saved,            \* history: key files written
    summary,          \* Option of the count printed by the final summary line
    panicked,         \* whether an attempt of the current round has panicked
    stdout,           \* history: the kinds of match fields written to standard output
    progress,         \* history: Option of the last progress line, [tried, found]
    pattern,          \* parser/matcher harness: the pattern string
    address,          \* parser/matcher harness: the address string
    parsed,           \* parser/matcher harness: Option of parse_pattern's Result
    matched,          \* parser/matcher harness: Option of [is_prefix, outcome]
    hexspeak          \* parser/matcher harness: Option of string_to_hexspeak's Result

coordVars == <<config, bounded, overflow_checks, main, thread_count, pool_built,
               starts_pattern, ends_pattern, count, tried, remaining, pc, key,
               current, generated, first_match, rejected, cas_wins, ordinals,
               emits, saved, summary, panicked, stdout, progress>>

pureVars == <<pattern, address, parsed, matched, hexspeak>>

vars == <<coordVars, pureVars, stdout, progress>>

(* ------------------------------------------------------------------ *)
(* Inputs                                                              *)
(* ------------------------------------------------------------------ *)

\* n copies of the character c.
Repeat(c, n) == [i \in 1..n |-> c]

\* generate_new_key's address: "0x" and 2 * AddrBytes hex digits. The
\* modelled generator draws from three fixtures, written with the digit hi
\* in every byte but the last and lo in the last.
Fixture(hi, lo) == <<"0", "x">> \o Repeat(hi, 2 * (AddrBytes - 1)) \o Repeat(lo, 2)

GenAddresses == {Fixture("a", "b"), Fixture("a", "a"), Fixture("b", "b")}

\* The pattern strings of the modelled configurations; "0xg" and "0xbg" do
\* not parse.
ConfigStarts == {None, Some(<<"0", "x", "a">>), Some(<<"0", "x", "g">>)}

ConfigEnds == {None, Some(<<"0", "x", "b", "b">>), Some(<<"0", "x", "b", "g">>)}

\* The CLI (main.rs, lines 390-400) passes on only configurations with a
\* pattern, a positive target and a positive batch size.
Configs ==
    {c \in [starts_with : ConfigStarts,
            ends_with : ConfigEnds,
            save_path : {None, Some("dir")},
            threads : 0..MaxThreads,
            max_addresses : 1..MaxTarget,
            addresses_per_round : 1..MaxBatch] :
        c.starts_with.some \/ c.ends_with.some}

\* The harness is idle while the coordinator runs, and the reverse.
PureIdle ==
    /\ pattern = << >>
    /\ address = << >>
    /\ parsed = None
    /\ matched = None
    /\ hexspeak = None

Init ==
    /\ config \in Configs
    /\ bounded = TRUE
    /\ overflow_checks = FALSE
    /\ main = "start"
    /\ thread_count = 0
    /\ pool_built = FALSE
    /\ starts_pattern = None
    /\ ends_pattern = None
    /\ count = 0
    /\ tried = 0
    /\ remaining = 0
    /\ pc = << >>
    /\ key = << >>
    /\ current = << >>
    /\ generated = 0
    /\ first_match = 0
    /\ rejected = None
    /\ cas_wins = 0
    /\ ordinals = {}
    /\ emits = 0
    /\ saved = 0
    /\ summary = None
    /\ panicked = FALSE
    /\ stdout = {}
    /\ progress = None
    /\ PureIdle

(* ------------------------------------------------------------------ *)
(* generate_vanity_addresses: set-up                                   *)
(* ------------------------------------------------------------------ *)

Workers == DOMAIN pc

\* Lines 249-258: the pool is built, and its threads spawned, first.
\* threads = 0 takes rayon::current_num_threads().
BuildPool ==
    /\ main = "start"
    /\ \E n \in 1..MaxThreads :
          /\ (config.threads # 0 => n = config.threads)
          /\ thread_count' = n
          /\ pc' = [w \in 1..n |-> "idle"]
          /\ key' = [w \in 1..n |-> None]
          /\ current' = [w \in 1..n |-> 0]
    /\ pool_built' = TRUE
    /\ main' = "parse"
    /\ UNCHANGED <<config, bounded, overflow_checks, starts_pattern, ends_pattern, count,
                   tried, remaining, generated, first_match, rejected, cas_wins,
                   ordinals, emits, saved, summary, panicked, pureVars, stdout, progress>>

\* Line 258: ThreadPoolBuilder::build fails and the error is returned.
BuildPoolFails ==
    /\ main = "start"
    /\ main' = "error"
    /\ UNCHANGED <<config, bounded, overflow_checks, thread_count, pool_built,
                   starts_pattern, ends_pattern, count, tried, remaining, pc, key,
                   current, generated, first_match, rejected, cas_wins, ordinals,
                   emits, saved, summary, panicked, pureVars, stdout, progress>>

\* Lines 261-271: Some(parse_pattern(p)?) for a supplied pattern.
ParseOption(p) == IF p.some THEN parse_pattern(p.v) ELSE Ok(None)

ParsePatterns ==
    /\ main = "parse"
    /\ LET s == ParseOption(config.starts_with)
           e == ParseOption(config.ends_with)
       IN  IF ~s.ok
           THEN /\ main' = "error"
                /\ UNCHANGED <<starts_pattern, ends_pattern>>
           ELSE IF ~e.ok
           THEN /\ main' = "error"
                /\ starts_pattern' = (IF config.starts_with.some THEN Some(s.val) ELSE None)
                /\ UNCHANGED ends_pattern
           ELSE /\ main' = "loop"
                /\ starts_pattern' = (IF config.starts_with.some THEN Some(s.val) ELSE None)
                /\ ends_pattern' = (IF config.ends_with.some THEN Some(e.val) ELSE None)
    /\ UNCHANGED <<config, bounded, overflow_checks, thread_count, pool_built, count, tried,
                   remaining, pc, key, current, generated, first_match, rejected,
                   cas_wins, ordinals, emits, saved, summary, panicked, pureVars, stdout, progress>>

(* ------------------------------------------------------------------ *)
(* generate_vanity_addresses: the round loop                           *)
(* ------------------------------------------------------------------ *)

\* LoopCheck that dispatches one attempt less than the configured round size.
LoopCheckShortRound ==
    /\ main = "loop"
    /\ IF count < config.max_addresses
       THEN /\ bounded => tried + config.addresses_per_round <= MaxTried
            /\ remaining' = config.addresses_per_round - 1
            /\ main' = "round"
            /\ UNCHANGED summary
       ELSE /\ main' = "done"
            /\ summary' = Some(count)
            /\ UNCHANGED remaining
    /\ UNCHANGED <<config, bounded, overflow_checks, thread_count, pool_built,
                   starts_pattern, ends_pattern, count, tried, pc, key, current,
                   generated, first_match, rejected, cas_wins, ordinals, emits,
                   saved, panicked, pureVars, stdout, progress>>

\* LoopCheck with the comparison off by one: a round is dispatched while
\* the counter is at most the target.
LoopCheckInclusive ==
    /\ main = "loop"
    /\ IF count <= config.max_addresses
       THEN /\ bounded => tried + config.addresses_per_round <= MaxTried
            /\ remaining' = config.addresses_per_round
            /\ main' = "round"
            /\ UNCHANGED summary
       ELSE /\ main' = "done"
            /\ summary' = Some(count)
            /\ UNCHANGED remaining
    /\ UNCHANGED <<config, bounded, overflow_checks, thread_count, pool_built,
                   starts_pattern, ends_pattern, count, tried, pc, key, current,
                   generated, first_match, rejected, cas_wins, ordinals, emits,
                   saved, panicked, pureVars, stdout, progress>>

\* Line 307: the while condition. Below the target a round of
\* addresses_per_round attempts is dispatched; otherwise the loop ends and
\* lines 399-407 print the summary with the counter's value.
LoopCheck ==
    /\ main = "loop"
    /\ IF count < config.max_addresses
       THEN /\ bounded => tried + config.addresses_per_round <= MaxTried
            /\ remaining' = config.addresses_per_round
            /\ main' = "round"
            /\ UNCHANGED summary
       ELSE /\ main' = "done"
            /\ summary' = Some(count)
            /\ UNCHANGED remaining
    /\ UNCHANGED <<config, bounded, overflow_checks, thread_count, pool_built,
                   starts_pattern, ends_pattern, count, tried, pc, key, current,
                   generated, first_match, rejected, cas_wins, ordinals, emits,
                   saved, panicked, pureVars, stdout, progress>>

\* Join that writes the progress line after every round, also after the one
\* that reached the target.
JoinAlwaysPrints ==
    /\ main = "round"
    /\ remaining = 0
    /\ \A w \in Workers : pc[w] = "idle"
    /\ IF panicked
       THEN /\ main' = "panicked"
            /\ UNCHANGED tried
       ELSE /\ main' = "loop"
            /\ tried' = Min(tried + config.addresses_per_round, MaxTried)
    /\ progress' = IF ~panicked
                   THEN Some([tried |-> tried', found |-> count])
                   ELSE progress
    /\ rejected' = None
    /\ UNCHANGED <<config, bounded, overflow_checks, thread_count, pool_built,
                   starts_pattern, ends_pattern, count, remaining, pc, key, current,
                   generated, first_match, cas_wins, ordinals, emits, saved,
                   summary, panicked, pureVars, stdout>>

\* Join that does not wait for the attempts in flight: the round is left as
\* soon as every attempt has been handed out.
JoinEarly ==
    /\ main = "round"
    /\ remaining = 0
    /\ IF panicked
       THEN /\ main' = "panicked"
            /\ UNCHANGED tried
       ELSE /\ main' = "loop"
            /\ tried' = Min(tried + config.addresses_per_round, MaxTried)
    /\ progress' = IF ~panicked /\ count < config.max_addresses
                   THEN Some([tried |-> tried', found |-> count])
                   ELSE progress
    /\ rejected' = None
    /\ UNCHANGED <<config, bounded, overflow_checks, thread_count, pool_built,
                   starts_pattern, ends_pattern, count, remaining, pc, key, current,
                   generated, first_match, cas_wins, ordinals, emits, saved,
                   summary, panicked, pureVars, stdout>>

\* Lines 390-395: the for_each has returned, that is every attempt of the
\* round has finished; a panic of an attempt resumes here.
Join ==
    /\ main = "round"
    /\ remaining = 0
    /\ \A w \in Workers : pc[w] = "idle"
    /\ IF panicked
       THEN /\ main' = "panicked"
            /\ UNCHANGED tried
       ELSE /\ main' = "loop"
            /\ tried' = Min(tried + config.addresses_per_round, MaxTried)
    /\ progress' = IF ~panicked /\ count < config.max_addresses
                   THEN Some([tried |-> tried', found |-> count])
                   ELSE progress
    /\ rejected' = None
    /\ UNCHANGED <<config, bounded, overflow_checks, thread_count, pool_built,
                   starts_pattern, ends_pattern, count, remaining, pc, key, current,
                   generated, first_match, cas_wins, ordinals, emits, saved,
                   summary, panicked, pureVars, stdout>>

(* ------------------------------------------------------------------ *)
(* generate_vanity_addresses: one attempt (the for_each closure)       *)
(* ------------------------------------------------------------------ *)

\* Take without the early-out: every attempt goes on to generate a key.
TakeWithoutEarlyOut(w) ==
    /\ main = "round"
    /\ pc[w] = "idle"
    /\ remaining > 0
    /\ remaining' = remaining - 1
    /\ pc' = [pc EXCEPT ![w] = "generate"]
    /\ UNCHANGED <<config, bounded, overflow_checks, main, thread_count, pool_built,
                   starts_pattern, ends_pattern, count, tried, key, current,
                   generated, first_match, rejected, cas_wins, ordinals, emits,
                   saved, summary, panicked, pureVars, stdout, progress>>

\* Lines 310-313: a worker takes the next attempt of the round and reads the
\* counter; at or above the target the attempt returns at once.
Take(w) ==
    /\ main = "round"
    /\ pc[w] = "idle"
    /\ remaining > 0
    /\ remaining' = remaining - 1
    /\ pc' = [pc EXCEPT ![w] = IF count >= config.max_addresses
                               THEN "idle" ELSE "generate"]
    /\ UNCHANGED <<config, bounded, overflow_checks, main, thread_count, pool_built,
                   starts_pattern, ends_pattern, count, tried, key, current,
                   generated, first_match, rejected, cas_wins, ordinals, emits,
                   saved, summary, panicked, pureVars, stdout, progress>>

\* candidate_matches with the suffix test forgotten.
candidate_matches_prefix_only(addr, sp, ep, checks) ==
    IF sp.some
    THEN matches_pattern(addr, sp.v.needle, sp.v.uneven_nibble, sp.v.regex, TRUE, checks)
    ELSE Returned(TRUE)

\* Lines 320-335: the `matches` flag of a candidate. The suffix test runs
\* only while the flag is still true.
candidate_matches(addr, sp, ep, checks) ==
    LET s == IF sp.some
             THEN matches_pattern(addr, sp.v.needle, sp.v.uneven_nibble,
                                  sp.v.regex, TRUE, checks)
             ELSE Returned(TRUE)
    IN  IF s.panicked THEN Panicked
        ELSE IF s.value /\ ep.some
        THEN matches_pattern(addr, ep.v.needle, ep.v.uneven_nibble,
                             ep.v.regex, FALSE, checks)
        ELSE s

\* GenerateFails with the error propagated: the failed attempt ends the run.
GenerateFailsAborts(w) ==
    /\ pc[w] = "generate"
    /\ generated' = (IF bounded THEN generated + 1 ELSE generated)
    /\ pc' = [pc EXCEPT ![w] = "idle"]
    /\ main' = "error"
    /\ UNCHANGED <<config, bounded, overflow_checks, thread_count, pool_built,
                   starts_pattern, ends_pattern, count, tried, remaining, key,
                   current, first_match, rejected, cas_wins, ordinals, emits,
                   saved, summary, panicked, pureVars, stdout, progress>>

\* Lines 315-318: generate_new_key fails and the attempt returns.
GenerateFails(w) ==
    /\ pc[w] = "generate"
    /\ generated' = (IF bounded THEN generated + 1 ELSE generated)
    /\ pc' = [pc EXCEPT ![w] = "idle"]
    /\ UNCHANGED <<config, bounded, overflow_checks, main, thread_count, pool_built,
                   starts_pattern, ends_pattern, count, tried, remaining, key,
                   current, first_match, rejected, cas_wins, ordinals, emits,
                   saved, summary, panicked, pureVars, stdout, progress>>

\* Lines 315-337: a key is generated and tested; a match goes on to claim a
\* slot, anything else ends the attempt.
Generate(w) ==
    /\ pc[w] = "generate"
    /\ generated' = (IF bounded THEN generated + 1 ELSE generated)
    /\ \E a \in GenAddresses :
          LET m == candidate_matches(a, starts_pattern, ends_pattern, overflow_checks)
          IN  IF m.panicked
              THEN /\ panicked' = TRUE
                   /\ pc' = [pc EXCEPT ![w] = "idle"]
                   /\ UNCHANGED <<key, first_match, rejected>>
              ELSE IF m.value
              THEN /\ pc' = [pc EXCEPT ![w] = "load"]
                   /\ key' = [key EXCEPT ![w] = Some(a)]
                   /\ first_match' = (IF bounded /\ first_match = 0
                                      THEN generated + 1 ELSE first_match)
                   /\ UNCHANGED <<rejected, panicked>>
              ELSE /\ pc' = [pc EXCEPT ![w] = "idle"]
                   /\ rejected' = (IF bounded THEN Some(a) ELSE rejected)
                   /\ UNCHANGED <<key, first_match, panicked>>
    /\ UNCHANGED <<config, bounded, overflow_checks, main, thread_count, pool_built,
                   starts_pattern, ends_pattern, count, tried, remaining, current,
                   cas_wins, ordinals, emits, saved, summary, pureVars, stdout, progress>>

\* Load with the test off by one: the candidate that would bring the
\* counter to the target is dropped as well.
LoadStopsShort(w) ==
    /\ pc[w] = "load"
    /\ current' = [current EXCEPT ![w] = count]
    /\ IF count + 1 >= config.max_addresses
       THEN /\ pc' = [pc EXCEPT ![w] = "idle"]
            /\ key' = [key EXCEPT ![w] = None]
       ELSE /\ pc' = [pc EXCEPT ![w] = "cas"]
            /\ UNCHANGED key
    /\ UNCHANGED <<config, bounded, overflow_checks, main, thread_count, pool_built,
                   starts_pattern, ends_pattern, count, tried, remaining,
                   generated, first_match, rejected, cas_wins, ordinals, emits,
                   saved, summary, panicked, pureVars, stdout, progress>>

\* Lines 339-342: the counter is read into `current`; at or above the
\* target the matching candidate is dropped.
Load(w) ==
    /\ pc[w] = "load"
    /\ current' = [current EXCEPT ![w] = count]
    /\ IF count >= config.max_addresses
       THEN /\ pc' = [pc EXCEPT ![w] = "idle"]
            /\ key' = [key EXCEPT ![w] = None]
       ELSE /\ pc' = [pc EXCEPT ![w] = "cas"]
            /\ UNCHANGED key
    /\ UNCHANGED <<config, bounded, overflow_checks, main, thread_count, pool_built,
                   starts_pattern, ends_pattern, count, tried, remaining,
                   generated, first_match, rejected, cas_wins, ordinals, emits,
                   saved, summary, panicked, pureVars, stdout, progress>>

\* Ordinal with the pre-increment value.
OrdinalPreIncrement(w) == current[w]

\* Lines 370, 378: the ordinal of a claimed match.
Ordinal(w) == current[w] + 1

\* CasSucceeds as a plain increment: the counter is not compared with
\* `current` before it is written.
CasBlind(w) ==
    /\ pc[w] = "cas"
    /\ count' = count + 1
    /\ cas_wins' = cas_wins + 1
    /\ ordinals' = ordinals \cup {count + 1}
    /\ pc' = [pc EXCEPT ![w] = "emit"]
    /\ UNCHANGED <<config, bounded, overflow_checks, main, thread_count, pool_built,
                   starts_pattern, ends_pattern, tried, remaining, key, current,
                   generated, first_match, rejected, emits, saved, summary,
                   panicked, pureVars, stdout, progress>>

\* Lines 345-353: compare_exchange_weak(current, current + 1) succeeds.
CasSucceeds(w) ==
    /\ pc[w] = "cas"
    /\ count = current[w]
    /\ count' = current[w] + 1
    /\ cas_wins' = cas_wins + 1
    /\ ordinals' = ordinals \cup {Ordinal(w)}
    /\ pc' = [pc EXCEPT ![w] = "emit"]
    /\ UNCHANGED <<config, bounded, overflow_checks, main, thread_count, pool_built,
                   starts_pattern, ends_pattern, tried, remaining, key, current,
                   generated, first_match, rejected, emits, saved, summary,
                   panicked, pureVars, stdout, progress>>

\* CasFails with the result of the compare-exchange ignored: the loser
\* goes on to emit its candidate.
CasFailsEmits(w) ==
    /\ pc[w] = "cas"
    /\ count # current[w]
    /\ pc' = [pc EXCEPT ![w] = "emit"]
    /\ UNCHANGED <<config, bounded, overflow_checks, main, thread_count, pool_built,
                   starts_pattern, ends_pattern, count, tried, remaining, key,
                   current, generated, first_match, rejected, cas_wins, ordinals,
                   emits, saved, summary, panicked, pureVars, stdout, progress>>

\* Lines 345-353: the compare-exchange fails because the counter has moved
\* on; the candidate is dropped.
CasFails(w) ==
    /\ pc[w] = "cas"
    /\ count # current[w]
    /\ pc' = [pc EXCEPT ![w] = "idle"]
    /\ key' = [key EXCEPT ![w] = None]
    /\ UNCHANGED <<config, bounded, overflow_checks, main, thread_count, pool_built,
                   starts_pattern, ends_pattern, count, tried, remaining, current,
                   generated, first_match, rejected, cas_wins, ordinals, emits,
                   saved, summary, panicked, pureVars, stdout, progress>>

\* CasFailsSpuriously with a retry: the attempt reads the counter again and
\* makes a second compare-exchange for the same candidate.
CasFailsSpuriouslyRetries(w) ==
    /\ pc[w] = "cas"
    /\ count = current[w]
    /\ pc' = [pc EXCEPT ![w] = "load"]
    /\ UNCHANGED key
    /\ UNCHANGED <<config, bounded, overflow_checks, main, thread_count, pool_built,
                   starts_pattern, ends_pattern, count, tried, remaining, current,
                   generated, first_match, rejected, cas_wins, ordinals, emits,
                   saved, summary, panicked, pureVars, stdout, progress>>

\* Lines 345-353: compare_exchange_weak is allowed to fail although the
\* counter still holds `current`; the candidate is dropped all the same.
CasFailsSpuriously(w) ==
    /\ pc[w] = "cas"
    /\ count = current[w]
    /\ pc' = [pc EXCEPT ![w] = "idle"]
    /\ key' = [key EXCEPT ![w] = None]
    /\ UNCHANGED <<config, bounded, overflow_checks, main, thread_count, pool_built,
                   starts_pattern, ends_pattern, count, tried, remaining, current,
                   generated, first_match, rejected, cas_wins, ordinals, emits,
                   saved, summary, panicked, pureVars, stdout, progress>>

\* Lines 368-375: the fields of the one line persisted mode writes to standard
\* output for a saved match.
PersistedLine == {"ordinal", "max_addresses", "address", "save_path", "address_clean"}

\* EmitSaved writing the private key next to the path, as terminal mode does.
EmitSavedPrintsKey(w) ==
    /\ pc[w] = "emit"
    /\ config.save_path.some
    /\ emits' = emits + 1
    /\ saved' = saved + 1
    /\ stdout' = stdout \cup PersistedLine \cup {"private_key"}
    /\ pc' = [pc EXCEPT ![w] = "idle"]
    /\ key' = [key EXCEPT ![w] = None]
    /\ UNCHANGED <<config, bounded, overflow_checks, main, thread_count, pool_built,
                   starts_pattern, ends_pattern, count, tried, remaining, current,
                   generated, first_match, rejected, cas_wins, ordinals, summary,
                   panicked, pureVars, progress>>

\* Lines 360-375: persisted mode, the key file is written and the match is
\* reported in one line.
EmitSaved(w) ==
    /\ pc[w] = "emit"
    /\ config.save_path.some
    /\ emits' = emits + 1
    /\ saved' = saved + 1
    /\ stdout' = stdout \cup PersistedLine
    /\ pc' = [pc EXCEPT ![w] = "idle"]
    /\ key' = [key EXCEPT ![w] = None]
    /\ UNCHANGED <<config, bounded, overflow_checks, main, thread_count, pool_built,
                   starts_pattern, ends_pattern, count, tried, remaining, current,
                   generated, first_match, rejected, cas_wins, ordinals, summary,
                   panicked, pureVars, progress>>

\* EmitSaveFails with the claim undone: the counter is decremented when the
\* key file cannot be written.
EmitSaveFailsRollsBack(w) ==
    /\ pc[w] = "emit"
    /\ config.save_path.some
    /\ emits' = emits + 1
    /\ count' = count - 1
    /\ pc' = [pc EXCEPT ![w] = "idle"]
    /\ key' = [key EXCEPT ![w] = None]
    /\ UNCHANGED <<config, bounded, overflow_checks, main, thread_count, pool_built,
                   starts_pattern, ends_pattern, tried, remaining, current,
                   generated, first_match, rejected, cas_wins, ordinals, saved,
                   summary, panicked, pureVars, stdout, progress>>

\* Lines 360-366: persisted mode, save_key_to_file fails; the failure is
\* reported on stderr and the attempt returns.
EmitSaveFails(w) ==
    /\ pc[w] = "emit"
    /\ config.save_path.some
    /\ emits' = emits + 1
    /\ pc' = [pc EXCEPT ![w] = "idle"]
    /\ key' = [key EXCEPT ![w] = None]
    /\ UNCHANGED <<config, bounded, overflow_checks, main, thread_count, pool_built,
                   starts_pattern, ends_pattern, count, tried, remaining, current,
                   generated, first_match, rejected, cas_wins, ordinals, saved,
                   summary, panicked, pureVars, stdout, progress>>

\* Line 378: terminal mode, the first of the four println! calls of a match
\* writes the "Found match" line.  Each println! takes and releases the
\* standard output lock on its own, so each is a step of its own.
EmitPrinted(w) ==
    /\ pc[w] = "emit"
    /\ ~config.save_path.some
    /\ emits' = emits + 1
    /\ stdout' = stdout \cup {"ordinal", "max_addresses"}
    /\ pc' = [pc EXCEPT ![w] = "print_address"]
    /\ UNCHANGED key
    /\ UNCHANGED <<config, bounded, overflow_checks, main, thread_count, pool_built,
                   starts_pattern, ends_pattern, count, tried, remaining, current,
                   generated, first_match, rejected, cas_wins, ordinals, saved,
                   summary, panicked, pureVars, progress>>

\* Line 379: the "Address:" line.
PrintAddress(w) ==
    /\ pc[w] = "print_address"
    /\ stdout' = stdout \cup {"address"}
    /\ pc' = [pc EXCEPT ![w] = "print_key"]
    /\ UNCHANGED <<key, emits>>
    /\ UNCHANGED <<config, bounded, overflow_checks, main, thread_count, pool_built,
                   starts_pattern, ends_pattern, count, tried, remaining, current,
                   generated, first_match, rejected, cas_wins, ordinals, saved,
                   summary, panicked, pureVars, progress>>

\* Lines 382-383: the key pair is encoded and the "Private Key:" line written.
PrintKey(w) ==
    /\ pc[w] = "print_key"
    /\ stdout' = stdout \cup {"private_key"}
    /\ pc' = [pc EXCEPT ![w] = "print_blank"]
    /\ UNCHANGED <<key, emits>>
    /\ UNCHANGED <<config, bounded, overflow_checks, main, thread_count, pool_built,
                   starts_pattern, ends_pattern, count, tried, remaining, current,
                   generated, first_match, rejected, cas_wins, ordinals, saved,
                   summary, panicked, pureVars, progress>>

\* Line 384: the blank line that closes the match; the attempt ends.
PrintBlank(w) ==
    /\ pc[w] = "print_blank"
    /\ pc' = [pc EXCEPT ![w] = "idle"]
    /\ key' = [key EXCEPT ![w] = None]
    /\ UNCHANGED <<stdout, emits>>
    /\ UNCHANGED <<config, bounded, overflow_checks, main, thread_count, pool_built,
                   starts_pattern, ends_pattern, count, tried, remaining, current,
                   generated, first_match, rejected, cas_wins, ordinals, saved,
                   summary, panicked, pureVars, progress>>

Next ==
    \/ BuildPool
    \/ BuildPoolFails
    \/ ParsePatterns
    \/ LoopCheck
    \/ Join
    \/ \E w \in Workers : Take(w)
    \/ \E w \in Workers : GenerateFails(w)
    \/ \E w \in Workers : Generate(w)
    \/ \E w \in Workers : Load(w)
    \/ \E w \in Workers : CasSucceeds(w)
    \/ \E w \in Workers : CasFails(w)
    \/ \E w \in Workers : CasFailsSpuriously(w)
    \/ \E w \in Workers : EmitSaved(w)
    \/ \E w \in Workers : EmitSaveFails(w)
    \/ \E w \in Workers : EmitPrinted(w)
    \/ \E w \in Workers : PrintAddress(w)
    \/ \E w \in Workers : PrintKey(w)
    \/ \E w \in Workers : PrintBlank(w)

Spec == Init /\ [][Next]_vars

(* ------------------------------------------------------------------ *)
(* The run without end: no cut-off at MaxTried, under fair scheduling, *)
(* a generator that produces a matching candidate again and again, and *)
(* a compare_exchange_weak that does not fail spuriously for ever.     *)
(* ------------------------------------------------------------------ *)

\* The configurations of the liveness check: one worker or the most workers,
\* a round of one attempt or of the most attempts, the largest target, and
\* both patterns supplied, so that generated candidates are rejected too.
LiveConfigs ==
    {c \in Configs : /\ c.threads \in {1, MaxThreads}
                     /\ c.max_addresses = MaxTarget
                     /\ c.addresses_per_round \in {1, MaxBatch}
                     /\ c.starts_with.some /\ c.ends_with.some}

LiveInit ==
    /\ config \in LiveConfigs
    /\ bounded = FALSE
    /\ overflow_checks = FALSE
    /\ main = "start"
    /\ thread_count = 0
    /\ pool_built = FALSE
    /\ starts_pattern = None
    /\ ends_pattern = None
    /\ count = 0
    /\ tried = 0
    /\ remaining = 0
    /\ pc = << >>
    /\ key = << >>
    /\ current = << >>
    /\ generated = 0
    /\ first_match = 0
    /\ rejected = None
    /\ cas_wins = 0
    /\ ordinals = {}
    /\ emits = 0
    /\ saved = 0
    /\ summary = None
    /\ panicked = FALSE
    /\ stdout = {}
    /\ progress = None
    /\ PureIdle

\* Some worker is about to call generate_new_key.
GeneratePending == \E w \in Workers : pc[w] = "generate"

\* A generate_new_key call returns a candidate that matches every pattern:
\* the step of Generate that takes a worker on to the load of the counter.
GeneratesMatch == \E w \in Workers : pc[w] = "generate" /\ pc'[w] = "load"

\* A compare-exchange succeeds.
ClaimsSlot == \E w \in Workers : CasSucceeds(w)

\* The search with its scheduling: rayon runs every dispatched attempt and
\* the main thread, a generator that is asked for keys again and again
\* returns a matching one again and again, and a compare_exchange_weak that
\* is retried again and again does not fail every time.
LiveSpec ==
    /\ LiveInit
    /\ [][Next]_vars
    /\ WF_vars(Next)
    /\ SF_vars(ClaimsSlot)
    /\ ([]<>GeneratePending => []<><<GeneratesMatch>>_vars)

(* ------------------------------------------------------------------ *)
(* The parser and the matcher on their own: a pattern string is parsed *)
(* (parse_pattern), then an address is tested against the parsed       *)
(* pattern as a prefix or as a suffix (matches_pattern).               *)
(* ------------------------------------------------------------------ *)

\* All sequences over chars of length at most n.
RECURSIVE SeqsUpTo(_, _)
SeqsUpTo(chars, n) ==
    IF n = 0 THEN {<< >>}
    ELSE LET shorter == SeqsUpTo(chars, n - 1)
         IN  shorter \cup {Append(t, c) : t \in shorter, c \in chars}

\* Characters after the "0x" of a hex-literal pattern: hex digits and a sign.
TailChars == {"a", "b", "c", "+"}

HexPatterns == {<<"0", "x">> \o t : t \in SeqsUpTo(TailChars, MaxTailLen)}

\* Patterns without the "0x" marker: hexspeak words and regular expressions.
OtherPatterns == {<<"a", "c", "e">>, <<"A", "g">>, <<"h", "a">>,
                  <<"^", "0", "x", "a">>, <<"(", "a">>, <<"a", "+", "b", "$">>,
                  <<"+", "a">>}

\* Hex literals of one digit more than a whole address: a needle as long as
\* the address and an odd nibble.
LongPatterns == {<<"0", "x">> \o Repeat("a", 2 * AddrBytes) \o <<d>> : d \in {"a", "b"}}

PurePatterns == HexPatterns \cup OtherPatterns \cup LongPatterns

\* Words for string_to_hexspeak: a hex letter, an upper-case letter of the
\* table, a lower-case letter of the table and a letter outside of it.
WordChars == {"a", "G", "t", "h"}

HexspeakWords == SeqsUpTo(WordChars, MaxTailLen)

\* The digits of the modelled addresses.
AddrDigits == {"a", "b", "c"}

\* Address strings of 1 to AddrBytes bytes: the generator's addresses have
\* AddrBytes bytes, the shorter ones stand for an address shorter than the
\* pattern it is tested against.
Addresses ==
    {<<"0", "x">> \o t :
        t \in {u \in SeqsUpTo(AddrDigits, 2 * AddrBytes) : Len(u) > 0 /\ Len(u) % 2 = 0}}

\* VanityConfig::default(), lines 27-38.
DEFAULT_ADDRESSES_PER_ROUND == 10000

DefaultConfig ==
    [starts_with |-> None, ends_with |-> None, save_path |-> None, threads |-> 0,
     max_addresses |-> 1, addresses_per_round |-> DEFAULT_ADDRESSES_PER_ROUND]

PureInit ==
    /\ pattern \in PurePatterns \cup HexspeakWords
    /\ overflow_checks \in BOOLEAN
    /\ address = << >>
    /\ parsed = None
    /\ matched = None
    /\ hexspeak = None
    /\ config = DefaultConfig
    /\ bounded = TRUE
    /\ main = "start"
    /\ thread_count = 0
    /\ pool_built = FALSE
    /\ starts_pattern = None
    /\ ends_pattern = None
    /\ count = 0
    /\ tried = 0
    /\ remaining = 0
    /\ pc = << >>
    /\ key = << >>
    /\ current = << >>
    /\ generated = 0
    /\ first_match = 0
    /\ rejected = None
    /\ cas_wins = 0
    /\ ordinals = {}
    /\ emits = 0
    /\ saved = 0
    /\ summary = None
    /\ panicked = FALSE
    /\ stdout = {}
    /\ progress = None

\* parse_pattern(pattern), lines 119-158.
Parse ==
    /\ pattern \in PurePatterns
    /\ ~parsed.some
    /\ ~hexspeak.some
    /\ parsed' = Some(parse_pattern(pattern))
    /\ UNCHANGED <<pattern, address, matched, hexspeak, coordVars>>

\* string_to_hexspeak(pattern), lines 48-92.
Hexspeak ==
    /\ ~parsed.some
    /\ ~hexspeak.some
    /\ hexspeak' = Some(string_to_hexspeak(pattern))
    /\ UNCHANGED <<pattern, address, parsed, matched, coordVars>>

\* matches_pattern(address, needle, uneven_nibble, regex, is_prefix) on the
\* parsed pattern, lines 176-228.
Match(a, is_prefix) ==
    /\ address' = a
    /\ matched' = Some([is_prefix |-> is_prefix,
                        outcome |-> matches_pattern(a, parsed.v.val.needle,
                                                    parsed.v.val.uneven_nibble,
                                                    parsed.v.val.regex,
                                                    is_prefix, overflow_checks)])
    /\ UNCHANGED <<pattern, parsed, hexspeak, coordVars>>

CanMatch ==
    /\ parsed.some
    /\ parsed.v.ok
    /\ ~matched.some

MatchPrefix == CanMatch /\ \E a \in Addresses : Match(a, TRUE)

MatchSuffix == CanMatch /\ \E a \in Addresses : Match(a, FALSE)

PureNext ==
    \/ Parse
    \/ Hexspeak
    \/ MatchPrefix
    \/ MatchSuffix

PureSpec == PureInit /\ [][PureNext]_vars

(* ------------------------------------------------------------------ *)
(* Properties of the search coordinator (checked under Spec)           *)
(* ------------------------------------------------------------------ *)

\* The workers that have won a compare-exchange and not yet emitted.
Emitting == {w \in Workers : pc[w] = "emit"}

\* C1: in every reachable state of a run the match counter lies between 0
\* and max_addresses, whatever the interleaving of the workers.
CounterWithinTarget ==
    /\ count \in Nat
    /\ count <= config.max_addresses

\* C1, its case: two workers have read the counter and hold matching
\* candidates in the claim path at once, and one of them meets a counter
\* that is already at the target.
CounterContendedAtTarget ==
    /\ count = config.max_addresses
    /\ \E w \in Workers : pc[w] = "cas" /\ current[w] < count

\* C2: every successful compare-exchange is followed by exactly one Result
\* Sink invocation and there is none without one: the invocations made plus
\* the winners still to emit equal the wins, and between rounds and at the
\* end of the run the two numbers are equal.
EmitsEqualCasWins ==
    /\ emits + Cardinality(Emitting) = cas_wins
    /\ main \in {"loop", "done"} => emits = cas_wins

\* C2, its case: a run of two workers has ended after two wins, both emitted.
TwoWinsTwoEmits ==
    /\ main = "done"
    /\ thread_count >= 2
    /\ cas_wins = 2
    /\ emits = 2

\* C3: the ordinals handed to the claimed matches are the post-increment
\* counter values: at every point they are pairwise distinct (as many
\* ordinals as wins, and no two winners that are still emitting share one)
\* and are exactly 1..count; a run that ends has handed out exactly
\* 1..max_addresses.
OrdinalsAreOneToCount ==
    /\ ordinals = 1..count
    /\ Cardinality(ordinals) = cas_wins
    /\ \A v, w \in Emitting : v # w => Ordinal(v) # Ordinal(w)
    /\ \A w \in Emitting : Ordinal(w) \in ordinals
    /\ main = "done" => ordinals = 1..config.max_addresses

\* C3, its case: a run with the largest target on several threads has ended.
AllOrdinalsHandedOut ==
    /\ main = "done"
    /\ thread_count >= 2
    /\ config.max_addresses = MaxTarget
    /\ ordinals = 1..MaxTarget

\* C4: a round is dispatched only from a counter below max_addresses, a
\* counter at or above it at the loop head ends the loop at once, and the
\* run returns with the counter, and the count of the summary line, equal
\* to max_addresses.
RoundLoopStopsAtTarget ==
    [][/\ (main = "loop" /\ main' = "round") => count < config.max_addresses
       /\ (main = "loop" /\ count >= config.max_addresses) => main' = "done"
       /\ main' = "done" => /\ count' = config.max_addresses
                            /\ summary' = Some(config.max_addresses)]_vars

\* C4, its case: the run has returned after more than one round.
ReturnedAfterSeveralRounds ==
    /\ main = "done"
    /\ tried > config.addresses_per_round
    /\ summary = Some(config.max_addresses)

\* C6: with one worker and target 1, when the first matching candidate is
\* the k-th key generated and k is within the first round, the run that
\* ends has generated exactly k keys and emitted exactly the match of
\* ordinal 1.
SingleWorkerStopsAtFirstMatch ==
    (/\ main = "done"
     /\ thread_count = 1
     /\ config.max_addresses = 1
     /\ first_match >= 1
     /\ first_match <= config.addresses_per_round)
    => /\ generated = first_match
       /\ emits = 1
       /\ ordinals = {1}

\* The parse of a supplied pattern string.
ParsedOf(p) == parse_pattern(p.v).val

\* Whether address a matches every pattern the configuration supplies.
MatchesEverySupplied(a) ==
    /\ config.starts_with.some =>
          LET p == ParsedOf(config.starts_with)
          IN  matches_pattern(a, p.needle, p.uneven_nibble, p.regex, TRUE,
                              overflow_checks).value
    /\ config.ends_with.some =>
          LET p == ParsedOf(config.ends_with)
          IN  matches_pattern(a, p.needle, p.uneven_nibble, p.regex, FALSE,
                              overflow_checks).value

\* C7: a candidate goes on to claim a slot iff it matches every supplied
\* pattern: every candidate that enters the claim path (it is about to read
\* the counter) matches them all, and every candidate dropped as a
\* non-match fails at least one.
ClaimsIffAllPatternsMatch ==
    /\ \A w \in Workers :
          (pc[w] = "load" /\ key[w].some) => MatchesEverySupplied(key[w].v)
    /\ rejected.some => ~MatchesEverySupplied(rejected.v)

\* C7, its case: with both patterns supplied, a candidate matching only the
\* prefix has been rejected while another one is claiming.
RejectedOnSuffixAlone ==
    /\ config.starts_with.some
    /\ config.ends_with.some
    /\ rejected = Some(Fixture("a", "a"))
    /\ \E w \in Workers : key[w] = Some(Fixture("a", "b"))

(* ------------------------------------------------------------------ *)
(* Properties of the parser and the matcher (checked under PureSpec)   *)
(* ------------------------------------------------------------------ *)

\* The value of a hexadecimal digit, by table.
NibbleOf(c) ==
    CASE c = "0" -> 0 [] c = "1" -> 1 [] c = "2" -> 2 [] c = "3" -> 3
      [] c = "4" -> 4 [] c = "5" -> 5 [] c = "6" -> 6 [] c = "7" -> 7
      [] c = "8" -> 8 [] c = "9" -> 9 [] c = "a" -> 10 [] c = "b" -> 11
      [] c = "c" -> 12 [] c = "d" -> 13 [] c = "e" -> 14 [] c = "f" -> 15

IsHexDigit(c) == c \in {"0","1","2","3","4","5","6","7","8","9","a","b","c","d","e","f"}

\* The bytes an "0x" address string stands for.
BytesOf(a) ==
    [i \in 1..((Len(a) - 2) \div 2) |-> 16 * NibbleOf(a[2 * i + 1]) + NibbleOf(a[2 * i + 2])]

\* The bytes a string of n hex digits stands for: ceil(n/2) bytes, the
\* digits in pairs, a trailing single digit d as d * 16.
PaddedBytesOf(digits) ==
    [i \in 1..((Len(digits) + 1) \div 2) |->
        16 * NibbleOf(digits[2 * i - 1])
        + (IF 2 * i <= Len(digits) THEN NibbleOf(digits[2 * i]) ELSE 0)]

\* The address after a Match step was tested against a byte needle.
ByteMatched(is_prefix) ==
    /\ matched.some
    /\ matched.v.is_prefix = is_prefix
    /\ ~parsed.v.val.regex.some

\* Address b differs from address a in exactly the byte at index i.
DiffersInByte(a, b, i) ==
    /\ Len(a) = Len(b)
    /\ \A j \in 1..Len(BytesOf(a)) : (BytesOf(a)[j] # BytesOf(b)[j]) <=> (j = i)

\* C8: with a byte needle N and no odd nibble, matches_pattern as Prefix
\* is true iff the decoded address bytes start with N; an address that
\* matches stops matching when any one of its first len(N) bytes changes.
PrefixMatchIsStartsWith ==
    (ByteMatched(TRUE) /\ ~parsed.v.val.uneven_nibble.some) =>
        LET N == parsed.v.val.needle
            bytes == BytesOf(address)
        IN  /\ ~matched.v.outcome.panicked
            /\ matched.v.outcome.value <=>
                  (Len(N) <= Len(bytes) /\ \A i \in 1..Len(N) : bytes[i] = N[i])
            /\ matched.v.outcome.value =>
                  \A i \in 1..Len(N) : \A b \in Addresses :
                      DiffersInByte(address, b, i) =>
                          ~matches_pattern(b, N, None, None, TRUE, overflow_checks).value

\* C8, its case: a one-byte needle was found at the start of a longer address.
PrefixNeedleFound ==
    /\ ByteMatched(TRUE)
    /\ ~parsed.v.val.uneven_nibble.some
    /\ Len(parsed.v.val.needle) = 1
    /\ Len(BytesOf(address)) = 2
    /\ matched.v.outcome.value

\* parse_pattern has returned and its result has not been used yet.
JustParsed == parsed.some /\ ~matched.some

\* The characters of a pattern after its "0x" marker.
TailOf(p) == SubSeq(p, 3, Len(p))

\* A pattern that is "0x" followed by hex digits only.
IsHexLiteral(p) ==
    /\ Len(p) >= 2
    /\ p[1] = "0"
    /\ p[2] = "x"
    /\ \A i \in 3..Len(p) : IsHexDigit(p[i])

\* C9: n hex digits, with or without a leading "0x", decode to ceil(n/2)
\* bytes, a trailing single digit d as d * 16; parse_pattern on "0x" and 2k
\* digits gives the k bytes and no odd nibble, and on 2k + 1 digits gives the
\* first k bytes and odd_nibble = (last digit) * 16.
HexLiteralParse ==
    (JustParsed /\ IsHexLiteral(pattern)) =>
        LET digits == TailOf(pattern)
            n == Len(digits)
            k == n \div 2
        IN  /\ hex_str_to_bytes(digits) = Ok(PaddedBytesOf(digits))
            /\ hex_str_to_bytes(pattern) = Ok(PaddedBytesOf(digits))
            /\ parsed.v.ok
            /\ parsed.v.val.regex = None
            /\ parsed.v.val.needle = PaddedBytesOf(SubSeq(digits, 1, 2 * k))
            /\ parsed.v.val.uneven_nibble =
                  (IF n % 2 = 1 THEN Some(16 * NibbleOf(digits[n])) ELSE None)

\* C9, its case: "0xabc" has been parsed to the needle [0xab] and the odd
\* nibble 0xc0.
ParsedAbc ==
    /\ pattern = <<"0", "x", "a", "b", "c">>
    /\ parsed = Some(Ok([needle |-> <<171>>, uneven_nibble |-> Some(192), regex |-> None]))

\* C10: with a byte needle N and an odd nibble v, an address matches as
\* Prefix iff its bytes start with N and the byte at index len(N) exists
\* and has the high nibble v.
PrefixOddNibbleRule ==
    (ByteMatched(TRUE) /\ parsed.v.val.uneven_nibble.some) =>
        LET N == parsed.v.val.needle
            v == parsed.v.val.uneven_nibble.v
            bytes == BytesOf(address)
        IN  matched.v.outcome.value <=>
                /\ Len(N) < Len(bytes)
                /\ \A i \in 1..Len(N) : bytes[i] = N[i]
                /\ (bytes[Len(N) + 1] \div 16) * 16 = v

(* ------------------------------------------------------------------ *)
(* Termination of the search (checked under LiveSpec)                  *)
(* ------------------------------------------------------------------ *)

\* C5: with max_addresses >= 1 and addresses_per_round >= 1, under fair
\* scheduling and a generator that produces matching candidates again and
\* again, a run that has entered the round loop eventually returns with the
\* counter at max_addresses.
SearchTerminates ==
    (main = "loop") ~> (main = "done" /\ count = config.max_addresses)

\* C5, its case: a run without cut-off has gone through more attempts than
\* MaxTried and has returned with the largest target reached.
LongRunReturned ==
    /\ ~bounded
    /\ main = "done"
    /\ tried >= MaxTried
    /\ count = MaxTarget

(* ------------------------------------------------------------------ *)
(* The suffix anchor and the odd nibble (checked under PureSpec)       *)
(* ------------------------------------------------------------------ *)

\* C11: with a byte needle N and the odd nibble of an odd-length pattern, an
\* address matches as Suffix iff its bytes end with N and the low nibble of
\* the byte just before that suffix is the pattern's final hex digit.
SuffixOddNibbleRule ==
    (ByteMatched(FALSE) /\ parsed.v.val.uneven_nibble.some) =>
        LET N == parsed.v.val.needle
            digit == parsed.v.val.uneven_nibble.v \div 16
            bytes == BytesOf(address)
        IN  matched.v.outcome.value <=>
                /\ Len(N) < Len(bytes)
                /\ \A i \in 1..Len(N) : bytes[Len(bytes) - Len(N) + i] = N[i]
                /\ bytes[Len(bytes) - Len(N)] % 16 = digit

\* The hex digits of an address, without the "0x" marker.
HexTextOf(a) == SubSeq(a, 3, Len(a))

\* C12: for an ends_with pattern 0xH with H of 1 to 2 * AddrBytes hex digits,
\* parsing followed by suffix matching accepts a full-length address iff the
\* address's hex text ends with H.
SuffixHexLiteralIsTextSuffix ==
    (/\ ByteMatched(FALSE)
     /\ IsHexLiteral(pattern)
     /\ Len(TailOf(pattern)) >= 1
     /\ Len(BytesOf(address)) = AddrBytes
     /\ Len(TailOf(pattern)) <= 2 * AddrBytes) =>
        (matched.v.outcome.value <=> ends_with(HexTextOf(address), TailOf(pattern)))

\* C13: with an odd nibble, when the byte index to be nibble-checked
\* (len(needle) for Prefix, len(address) - len(needle) - 1 for Suffix) lies
\* outside the address bytes, matches_pattern returns false.
OutOfRangeNibbleFails ==
    (/\ matched.some
     /\ ~parsed.v.val.regex.some
     /\ parsed.v.val.uneven_nibble.some
     /\ Len(parsed.v.val.needle) >= Len(BytesOf(address))) =>
        matched.v.outcome = Returned(FALSE)

(* ------------------------------------------------------------------ *)
(* The rules of parse_pattern (checked under PureSpec)                 *)
(* ------------------------------------------------------------------ *)

\* A parse result that is a byte needle with no regex.
IsByteNeedle(p) == p.ok /\ p.val.regex = None

\* The needle of a parse result with its odd nibble put back as last byte.
NeedleWithNibble(p) ==
    IF p.val.uneven_nibble.some
    THEN Append(p.val.needle, p.val.uneven_nibble.v)
    ELSE p.val.needle

\* C14: on a pattern that begins with "0x", parse_pattern returns an error
\* or a byte needle that is the hex decoding of the string: never a regex,
\* never a hexspeak translation, whatever follows the marker.
HexMarkerNeverFallsThrough ==
    (JustParsed /\ starts_with(pattern, <<"0", "x">>)) =>
        LET decoded == hex_str_to_bytes(pattern)
        IN  IF decoded.ok
            THEN /\ IsByteNeedle(parsed.v)
                 /\ Len(pattern) % 2 = 0 => parsed.v.val.uneven_nibble = None
                 /\ NeedleWithNibble(parsed.v) = decoded.val
            ELSE parsed.v = Err

\* C14, its case: "0xa+", which is not hex and holds a regex metacharacter,
\* has been parsed to an error.
HexMarkerWithMetacharFailed ==
    /\ pattern = <<"0", "x", "a", "+">>
    /\ RegexNew(pattern).ok
    /\ parsed = Some(Err)

\* C15: parse_pattern on "0x" + r fails whenever r holds a character that is
\* not a hexadecimal digit, and on success the needle (with the odd nibble,
\* if any) is the hex decoding of r.
HexRemainderRejectsNonDigits ==
    (JustParsed /\ starts_with(pattern, <<"0", "x">>)) =>
        LET r == TailOf(pattern)
        IN  /\ (\E i \in 1..Len(r) : ~to_digit(r[i]).some) => ~parsed.v.ok
            /\ parsed.v.ok =>
                  /\ IsByteNeedle(parsed.v)
                  /\ NeedleWithNibble(parsed.v) = PaddedBytesOf(r)

\* The lower-case form of an ASCII letter, by table; any other character
\* is left as it is.
LowerOf(c) ==
    LET upper == <<"A","B","C","D","E","F","G","H","I","J","K","L","M",
                   "N","O","P","Q","R","S","T","U","V","W","X","Y","Z">>
        lower == <<"a","b","c","d","e","f","g","h","i","j","k","l","m",
                   "n","o","p","q","r","s","t","u","v","w","x","y","z">>
    IN  IF \E i \in 1..26 : upper[i] = c
        THEN lower[CHOOSE i \in 1..26 : upper[i] = c]
        ELSE c

\* The hexspeak table as the specification lists it.
HexspeakTable ==
    [c \in {"a","b","c","d","e","f","0","1","2","3","4","5","6","7","8","9",
            "g","i","j","l","o","q","s","t","z"} |->
        CASE c = "g" -> "9" [] c = "i" -> "1" [] c = "j" -> "1" [] c = "l" -> "1"
          [] c = "o" -> "0" [] c = "q" -> "9" [] c = "s" -> "5" [] c = "t" -> "7"
          [] c = "z" -> "2" [] OTHER -> c]

\* C16: string_to_hexspeak lower-cases its input, replaces every character
\* by its table entry and hex-decodes the result with the zero-nibble
\* padding; a character outside the table makes it fail.
HexspeakIsTableThenDecode ==
    hexspeak.some =>
        LET lowered == [i \in 1..Len(pattern) |-> LowerOf(pattern[i])]
        IN  IF \A i \in 1..Len(pattern) : lowered[i] \in DOMAIN HexspeakTable
            THEN hexspeak.v =
                    Ok(PaddedBytesOf([i \in 1..Len(pattern) |-> HexspeakTable[lowered[i]]]))
            ELSE hexspeak.v = Err

\* C16, its case: "ace" has been translated to [0xac, 0xe0].
HexspeakOfAce ==
    /\ pattern = <<"a", "c", "e">>
    /\ hexspeak = Some(Ok(<<172, 224>>))

(* ------------------------------------------------------------------ *)
(* Regex patterns (checked under PureSpec)                             *)
(* ------------------------------------------------------------------ *)

\* What the regex patterns of the harness say of an address text: "^0xa"
\* that it begins with 0xa, "a+b$" that it ends with ab.
RegexSays(re, text) ==
    CASE re = <<"^", "0", "x", "a">> -> starts_with(text, <<"0", "x", "a">>)
      [] re = <<"a", "+", "b", "$">> -> ends_with(text, <<"a", "b">>)

KeyGenFailureIsSwallowed ==
    [][/\ \A w \in Workers :
             GenerateFails(w) =>
                 /\ count' = count
                 /\ cas_wins' = cas_wins
                 /\ emits' = emits
                 /\ saved' = saved
                 /\ remaining' = remaining
                 /\ pc'[w] = "idle"
                 /\ \A v \in Workers \ {w} : pc'[v] = pc[v]
                 /\ main' = main
                 /\ panicked' = panicked
       /\ (main' = "error" /\ main # "error") => main \in {"start", "parse"}]_vars

\* C18, its case: in the first round the first generate_new_key call failed
\* (it neither matched nor was rejected) and the second attempt went on to
\* find and emit a match.
KeyGenFailedThenMatched ==
    /\ main = "round"
    /\ tried = 0
    /\ generated = 2
    /\ first_match = 2
    /\ rejected = None
    /\ count = 1
    /\ emits = 1

\* C19: a failing save_key_to_file neither rolls the counter back nor is
\* tried again: the attempt ends, the match stays counted, the run goes on
\* and returns with the summary count at the target, so the key files
\* written never exceed the matches counted.
SaveFailureStillCounts ==
    [][/\ \A w \in Workers :
             EmitSaveFails(w) =>
                 /\ count' = count
                 /\ cas_wins' = cas_wins
                 /\ saved' = saved
                 /\ remaining' = remaining
                 /\ pc'[w] = "idle"
                 /\ main' = main
       /\ saved' <= count'
       /\ main' = "done" => /\ summary' = Some(count')
                            /\ count' = config.max_addresses]_vars

\* C19, its case: a run in persisted mode has returned reporting more
\* matches than it wrote key files.
SavedLessThanReported ==
    /\ main = "done"
    /\ config.save_path.some
    /\ summary = Some(config.max_addresses)
    /\ saved < count

\* A supplied pattern of the configuration does not parse.
PatternFailsToParse ==
    \/ config.starts_with.some /\ ~parse_pattern(config.starts_with.v).ok
    \/ config.ends_with.some /\ ~parse_pattern(config.ends_with.v).ok

\* C20: when a supplied pattern fails to parse, the run has ended in an
\* error with no worker thread spawned: the pool has not been built.
ParseFailureBeforeThreads ==
    (main = "error" /\ PatternFailsToParse) => ~pool_built

\* C21: in persisted mode nothing written to standard output for a match
\* holds the key material: only the ordinal, the target, the address and
\* the destination path (directory and file name) are written, whether the
\* save succeeded or failed.
PersistedOutputHasNoKey ==
    config.save_path.some =>
        /\ "private_key" \notin stdout
        /\ stdout \subseteq {"ordinal", "max_addresses", "address",
                             "save_path", "address_clean"}
        /\ (saved = 0 => stdout = {})

\* C21, its case: a persisted run has saved one match and failed to save
\* another, and the line of the saved one is on standard output.
PersistedSavedAndFailed ==
    /\ config.save_path.some
    /\ saved >= 1
    /\ emits > saved
    /\ "address" \in stdout

\* The workers that are inside the emission of a match.
InEmission ==
    {w \in Workers : pc[w] \in {"emit", "print_address", "print_key", "print_blank"}}

\* C22: a progress-line write is never concurrent with the emission of a
\* match: the progress update of a round is made with every worker idle and
\* emits nothing itself, and every emission step is taken inside a round,
\* after the progress update of the round before and before its own.
ProgressNeverConcurrentWithEmission ==
    [][/\ (InEmission # {} \/ InEmission' # {}) => main = "round" /\ main' = "round"
       /\ (progress' # progress \/ tried' # tried) =>
              /\ InEmission = {}
              /\ \A w \in Workers : pc[w] = "idle"
              /\ pc' = pc
              /\ emits' = emits /\ saved' = saved /\ stdout' = stdout
       /\ (emits' # emits \/ saved' # saved \/ stdout' # stdout) =>
              /\ main = "round"
              /\ tried' = tried
              /\ progress' = progress]_vars

\* C22, its case: a progress line was written at the end of an earlier round
\* and a worker of a later round is in the middle of emitting a match.
EmissionAfterProgressLine ==
    /\ progress.some
    /\ tried = progress.v.tried
    /\ \E w \in Workers : pc[w] = "print_key"

\* The attempts started so far in the run, and those of them that went past
\* the start check of lines 311-313.
AttemptsStarted ==
    tried + (IF main = "round" THEN config.addresses_per_round - remaining ELSE 0)

PastStartCheck ==
    generated + Cardinality({w \in Workers : pc[w] = "generate"})

\* C23: an attempt that reads the counter at or above the target when it
\* starts generates no key, tests no match, updates no counter and emits
\* nothing; so with the counter at the target no worker leaves idle, and a
\* key is generated only by an attempt that was already past its check.
EarlyOutPerformsNothing ==
    [][/\ (remaining' = remaining - 1 /\ count >= config.max_addresses) =>
              /\ pc' = pc /\ key' = key /\ current' = current
              /\ generated' = generated /\ first_match' = first_match
              /\ rejected' = rejected
              /\ count' = count /\ cas_wins' = cas_wins
              /\ emits' = emits /\ saved' = saved /\ stdout' = stdout
       /\ count >= config.max_addresses =>
              \A w \in Workers : pc[w] = "idle" => pc'[w] = "idle"
       /\ generated' # generated =>
              \E w \in Workers : pc[w] = "generate" /\ pc'[w] # "generate"]_vars

\* C23, its case: the counter is at the target in the middle of a round and
\* an attempt of the run has been skipped at its start check.
AttemptSkippedAtTarget ==
    /\ main = "round"
    /\ count >= config.max_addresses
    /\ AttemptsStarted > PastStartCheck

\* C24: a round is a fork-join of exactly addresses_per_round attempts: it is
\* opened with that many attempts to hand out and every worker idle, its
\* steps start at most one attempt each, and the attempted count, the
\* progress line and the next round come only after all of them were
\* started and every one has finished.
RoundIsForkJoinOfBatch ==
    [][/\ (main = "loop" /\ main' = "round") =>
              /\ remaining' = config.addresses_per_round
              /\ \A w \in Workers : pc[w] = "idle"
       /\ (main = "round" /\ main' = "round") =>
              /\ remaining' \in {remaining, remaining - 1}
              /\ tried' = tried /\ progress' = progress
       /\ (main = "round" /\ main' # "round") =>
              /\ remaining = 0
              /\ \A w \in Workers : pc[w] = "idle"
       /\ (tried' # tried \/ progress' # progress) =>
              /\ main = "round" /\ main' = "loop"
              /\ tried' = tried + config.addresses_per_round
       /\ (\E w \in Workers : pc[w] # "idle") => main = "round"]_vars

\* C24, its case: the second round of a run with rounds of several attempts
\* has handed out all its attempts and one of them is still running.
SecondRoundInFlight ==
    /\ main = "round"
    /\ config.addresses_per_round >= 2
    /\ tried = config.addresses_per_round
    /\ remaining = 0
    /\ \E w \in Workers : pc[w] # "idle"

\* C25: an attempt makes at most one compare-exchange on the counter: the
\* compare-exchange is reached only from the load of the same attempt and
\* is left for the emission or for the end of the attempt, and no later
\* stage leads back to the load.  When it fails the candidate is dropped:
\* nothing is emitted or saved and the counter is left as it was.
AtMostOneCasThenDrop ==
    [][\A w \in Workers :
          /\ (pc[w] = "cas" /\ pc'[w] # "cas") => pc'[w] \in {"emit", "idle"}
          /\ (pc[w] # "cas" /\ pc'[w] = "cas") => pc[w] = "load"
          /\ (pc[w] # "load" /\ pc'[w] = "load") => pc[w] = "generate"
          /\ (pc[w] # "generate" /\ pc'[w] = "generate") => pc[w] = "idle"
          /\ (pc[w] = "cas" /\ pc'[w] = "idle") =>
                 /\ count' = count
                 /\ cas_wins' = cas_wins /\ ordinals' = ordinals
                 /\ emits' = emits /\ saved' = saved /\ stdout' = stdout
                 /\ key'[w] = None]_vars

\* C25, its case: a candidate matched and made its compare-exchange, which
\* failed; every attempt has ended with nothing claimed and nothing emitted.
MatchDroppedByFailedCas ==
    /\ main = "loop"
    /\ first_match >= 1
    /\ cas_wins = 0 /\ count = 0
    /\ emits = 0 /\ stdout = {}

\* C26: the end of a round adds exactly addresses_per_round to the attempted
\* count and writes a progress line iff the counter is still below the
\* target; the line shows the new attempted count and the counter, and the
\* attempted count it shows is the number of generate_new_key calls made so
\* far, none of the attempts counted having been skipped at its start check.
ProgressLineCountsRealAttempts ==
    [][tried' # tried =>
          /\ tried' = tried + config.addresses_per_round
          /\ IF count < config.max_addresses
             THEN /\ progress' = Some([tried |-> tried', found |-> count])
                  /\ tried' = generated
                  /\ PastStartCheck = generated
             ELSE progress' = progress]_vars

\* C26, its case: the progress line of the second round has been written
\* with a match already found.
SecondProgressLineWritten ==
    /\ main = "loop"
    /\ progress.some
    /\ progress.v.tried = 2 * config.addresses_per_round
    /\ progress.v.tried = tried
    /\ progress.v.found >= 1

\* C27: claiming makes progress.  In the round in which the first fully
\* matching candidate of the run is generated (the counter is then 0, below
\* the target, when that attempt reads it), the counter has been incremented
\* by the time every attempt of the round has finished.
ClaimingMakesProgress ==
    (/\ main = "round"
     /\ remaining = 0
     /\ \A w \in Workers : pc[w] = "idle"
     /\ first_match > tried)
    => count >= 1

\* The workers that have written the header line of their match and not yet
\* its closing blank line.
InsideMatchBlock ==
    {w \in Workers : pc[w] \in {"print_address", "print_key", "print_blank"}}

\* C28: in terminal mode the four lines of one match are contiguous on
\* standard output.  A line of another worker's match gets between them
\* exactly when that worker writes while the block is open, and then both
\* blocks are open at once; so at most one worker is ever inside its block.
MatchLinesContiguous ==
    ~config.save_path.some => Cardinality(InsideMatchBlock) <= 1

\* C29: with a Suffix anchor and an odd nibble, on an address of full length
\* whose bytes end with the needle, the index len(address_bytes) -
\* len(needle) - 1 does not fall below zero: the call neither panics nor
\* goes on with a wrapped index.
SuffixIndexNeverUnderflows ==
    (/\ matched.some
     /\ ~matched.v.is_prefix
     /\ ~parsed.v.val.regex.some
     /\ parsed.v.val.uneven_nibble.some
     /\ Len(BytesOf(address)) = AddrBytes
     /\ ends_with(BytesOf(address), parsed.v.val.needle)) =>
        LET idx == relevant_byte_idx(Len(BytesOf(address)), Len(parsed.v.val.needle),
                                     FALSE, overflow_checks)
        IN  /\ matched.v.outcome # Panicked
            /\ idx.ok
            /\ ~idx.val.wrapped

\* The pattern holds one of the characters parse_pattern takes for regex
\* syntax.
HasRegexSpecial(p) == \E i \in 1..Len(p) : p[i] \in RegexSpecial

\* C30: a pattern that does not begin with "0x" and holds a regex special
\* character never parses to a byte needle: the result is the regex when the
\* string compiles as one, and an error when it does not.
MetacharNeverYieldsNeedle ==
    (/\ JustParsed
     /\ ~starts_with(pattern, <<"0", "x">>)
     /\ HasRegexSpecial(pattern)) =>
        /\ ~IsByteNeedle(parsed.v)
        /\ IF RegexNew(pattern).ok
           THEN parsed.v = Ok([needle |-> << >>, uneven_nibble |-> None,
                               regex |-> Some(pattern)])
           ELSE parsed.v = Err

\* C30, its case: a pattern that opens with a repetition sign, which does
\* not compile as a regex, has been parsed and rejected.
RepetitionFirstRejected ==
    /\ JustParsed
    /\ Len(pattern) = 2
    /\ pattern[1] = "+"
    /\ hexspeak_map(pattern[2]).some
    /\ parsed.v = Err

====
